---- MODULE Spec2Model ----
(***************************************************************************)
(* Model of the NOC dashboard scanner (src/scanner/scanner.py) and of the  *)
(* PCAP analyzer (src/scanner/pcap_parser.py).                             *)
(*                                                                         *)
(* Spec        : main() driving NetworkScanner.full_network_scan, one      *)
(*               step per provider call / loop iteration / file operation. *)
(* SpecOverlap : Spec on a network whose address ranges overlap.           *)
(* SpecCadence : main() under fairness of the program's own steps.         *)
(* SpecTraffic : PCAPAnalyzer over a bounded packet sequence, asked for    *)
(*               its conversations.                                        *)
(* SpecExport  : PCAPAnalyzer asked for its summary, breakdown or export.  *)
(***************************************************************************)
EXTENDS Integers, Sequences, FiniteSets, TLC

\* ------------------------------------------------------------------ bounds
\* len(self.networks): 10.0.1.0/24, 10.0.2.0/24, 10.0.3.0/24.
NumNetworks == 3
\* Number of addresses of the first network that may answer a discovery
\* probe; the second network has one such address, the third has none.
MaxHosts == 2
\* Number of ports of the scanned range that nmap may report for a host.
MaxPorts == 1
\* Longest packet sequence drawn with arbitrary layer flags.
MaxFlagPackets == 2
\* Longest packet sequence drawn with arbitrary addresses and lengths.
MaxConvPackets == 3
\* Largest packet length (bytes) drawn.
MaxPktLen == 2
\* Largest limit passed to get_conversations.
MaxLimit == 3
\* Longest packet sequence drawn with arbitrary timestamps.
MaxTimePackets == 3
\* Largest packet timestamp (seconds) drawn.
MaxTime == 5
\* Longest packet sequence drawn with arbitrary DNS questions.
MaxDnsPackets == 3

\* ---------------------------------------------------------------- constants
\* scan_interval of main: the sleep between two scans, in seconds.
ScanInterval == 300
\* The sleep of main's "except Exception" branch, in seconds.
BackoffInterval == 60
\* The default limit of get_conversations.
DefaultLimit == 10
\* The slice export_json takes of the distinct DNS names.
DnsExportLimit == 20

VARIABLES
  pc,            \* position of main(): start, initial_scan, sleep,
                 \*   periodic_scan, backoff; main has ended: stopped (break),
                 \*   crashed (uncaught Exception), interrupted (uncaught
                 \*   KeyboardInterrupt)
  phase,         \* position inside full_network_scan
  scan_status,   \* how the last call of full_network_scan ended
  netIdx,        \* index of `network` in the loop over self.networks
  arp_hosts,     \* local arp_hosts of full_network_scan
  icmp_hosts,    \* local icmp_hosts
  all_hosts,     \* local all_hosts: the dict's items, in insertion order
  hostIdx,       \* position of the loop over all_hosts.items()
  scan_results,  \* local scan_results: hosts and summary
  port_info,     \* what the last call of scan_ports returned
  scan_failed,   \* whether the provider raised inside that call
  port_errors,   \* whether "Port scan failed" was logged during this scan
  arp_failed,    \* whether the last discover_hosts_arp logged a failure
  icmp_failed,   \* whether the last discover_hosts_icmp logged a failure
  discovered,    \* ips of every all_hosts built during this scan, in order
  results_file,  \* the scan_<id>.json of this scan: absent, partial, complete
  timer,         \* seconds of the time.sleep call main is in (0 when in none)
  reach,         \* what discovery answers the network allows: "disjoint"
                 \*   (only addresses of the probed network), "overlap"
                 \*   (an address of the first network also answers probes of
                 \*   the second), "sparse" (one address of one network)
  probes,        \* the discovery calls made so far in this scan, in order:
                 \*   << index of the network, provider >>
  apc,           \* position of the PCAPAnalyzer: none, analyze, ready
  packets,       \* self.packets
  pktIdx,        \* position of the loop of _analyze over self.packets
  protocols,     \* stats['protocols']: a defaultdict(int), keys as created
  tcp_streams,   \* stats['tcp_streams']: flow key -> positions of its packets
  dns_queries,   \* stats['dns_queries']
  duration,      \* stats['duration_seconds'] (whole seconds)
  conversations, \* what the last call of get_conversations returned
  conv_limit,    \* the limit of that call (-1 before any call)
  last_call,     \* the public method called last ("none" before any call)
  call_raised,   \* whether that call raised instead of returning
  pcap_summary,  \* what get_summary returned to that call
  breakdown,     \* what get_protocol_breakdown returned to that call
  dns_export     \* the 'dns_queries' entry export_json built in that call

scanVars == << pc, phase, scan_status, netIdx, arp_hosts, icmp_hosts, all_hosts,
               hostIdx, scan_results, port_info, scan_failed, port_errors,
               arp_failed, icmp_failed, discovered, results_file, timer, reach, probes >>

trafficVars == << apc, packets, pktIdx, protocols, tcp_streams, dns_queries,
                  duration, conversations, conv_limit, last_call, call_raised,
                  pcap_summary, breakdown, dns_export >>

vars == << scanVars, trafficVars >>

\* ----------------------------------------------------------- environment
\* The addresses of network n (10.0.n.h) that may answer a probe: the
\* configured /24s are disjoint.
NetSize(n) == CASE n = 1 -> MaxHosts [] n = 2 -> 1 [] OTHER -> 0

NetHosts(n) == { n * 10 + h : h \in 1 .. NetSize(n) }

NetOf(ip) == ip \div 10

\* element[1].hwsrc of the ARP answer of ip.
MacOf(ip) == 1000 + ip

\* The hostname nmap returns when it resolved none ('').
EmptyHostname == 0

\* The 'Unknown' that discover_hosts_icmp stores for an empty hostname.
UnknownHostname == 2000

\* self.nm[host].hostname(): nmap resolves a name for the first address
\* of a network and returns '' for the others.
NmapHostname(ip) == IF ip % 10 = 1 THEN 2000 + ip ELSE EmptyHostname

Ports == 1 .. MaxPorts

\* The 'name' entry nmap reports for a port; "" when the entry is omitted.
NmapServiceName(port) == IF port = 1 THEN "ssh" ELSE ""

\* ----------------------------------------------------------- sequences
\* The elements of the set of integers S as an ascending sequence.
RECURSIVE Ascending(_)
Ascending(S) ==
  IF S = {} THEN << >>
  ELSE LET m == CHOOSE x \in S : \A y \in S : x <= y
       IN  << m >> \o Ascending(S \ {m})

Range(s) == { s[i] : i \in 1 .. Len(s) }

\* Sequences over S without repetition, of every length.
RECURSIVE Orderings(_)
Orderings(S) ==
  { << >> } \cup UNION { { << x >> \o t : t \in Orderings(S \ {x}) } : x \in S }

\* ------------------------------------------------------ host discovery
\* host_info built by discover_hosts_arp for one answer (timestamps are
\* not modelled).
ArpHostInfo(ip) == [ ip |-> ip, mac |-> MacOf(ip), method |-> "ARP" ]

\* host_info built by discover_hosts_icmp for one host that is up.
IcmpHostInfo(ip) ==
  [ ip       |-> ip,
    hostname |-> IF NmapHostname(ip) # EmptyHostname
                 THEN NmapHostname(ip) ELSE UnknownHostname,
    method   |-> "ICMP" ]

\* discover_hosts_arp(network) when srp answers with the addresses `answered`.
ArpHosts(answered) == [ i \in 1 .. Len(answered) |-> ArpHostInfo(answered[i]) ]

\* discover_hosts_icmp(network) when nmap reports the addresses `up` as up.
IcmpHosts(up) == [ i \in 1 .. Len(up) |-> IcmpHostInfo(up[i]) ]

\* The addresses that may answer a probe of network n. The code passes on
\* whatever the provider reports: when the networks are not disjoint on the
\* wire, the first address of the first network answers probes of the
\* second network too.
Answering(n) ==
  CASE reach = "overlap" -> NetHosts(n) \cup (IF n = 2 THEN { 11 } ELSE {})
    [] reach = "sparse"  -> IF n = 2 THEN NetHosts(n) ELSE {}
    [] OTHER             -> NetHosts(n)

\* What a discovery provider may report for network n: any of the answering
\* addresses, each at most once, in any order.
DiscoveryAnswers(n) == Orderings(Answering(n))

\* ---------------------------------------------------------------- merge
\* Mutant: the items come out newest key first.
DictByIpNewestFirst(hostList) ==
  LET n        == Len(hostList)
      firstIdx == { i \in 1 .. n : \A j \in 1 .. (i - 1) : hostList[j].ip # hostList[i].ip }
      keys     == Ascending(firstIdx)
      lastOf(ip) == CHOOSE j \in 1 .. n :
                      /\ hostList[j].ip = ip
                      /\ \A k \in (j + 1) .. n : hostList[k].ip # ip
  IN  [ i \in 1 .. Len(keys) |->
          hostList[lastOf(hostList[keys[Len(keys) + 1 - i]].ip)] ]

\* The items of the dict {h['ip']: h for h in hostList}: one item per ip,
\* in the order of the ip's first occurrence, holding the record of its
\* last occurrence.
DictByIp(hostList) ==
  LET n        == Len(hostList)
      firstIdx == { i \in 1 .. n : \A j \in 1 .. (i - 1) : hostList[j].ip # hostList[i].ip }
      keys     == Ascending(firstIdx)
      lastOf(ip) == CHOOSE j \in 1 .. n :
                      /\ hostList[j].ip = ip
                      /\ \A k \in (j + 1) .. n : hostList[k].ip # ip
  IN  [ i \in 1 .. Len(keys) |-> hostList[lastOf(hostList[keys[i]].ip)] ]

\* Mutant: nothing is merged unless both providers reported something.
MergeHostsNeedsBoth(arp, icmp) ==
  IF arp = << >> \/ icmp = << >> THEN << >> ELSE DictByIp(arp \o icmp)

\* all_hosts = {h['ip']: h for h in arp_hosts + icmp_hosts}
MergeHosts(arp, icmp) == DictByIp(arp \o icmp)

\* ------------------------------------------------------------ scan_ports
\* What the nmap provider does in one call of scan_ports:
\*   up        : host in self.nm.all_hosts()
\*   state     : the state nmap reports for each port
\*   failAfter : -1 when nothing raises; k >= 0 when an exception is raised
\*               after k port entries were read (0: nm.scan itself raised)
ScanOutcomes ==
  { o \in [ up : BOOLEAN, state : [ Ports -> { "open", "closed" } ],
            failAfter : (-1) .. MaxPorts ] :
      o.failAfter > 0 => o.up }

ProviderFailed(outcome) == outcome.failAfter # -1

\* service_info of an open port; .get(key, 'unknown') for omitted entries.
ServiceInfo(port) ==
  [ port     |-> port,
    protocol |-> "tcp",
    state    |-> "open",
    service  |-> IF NmapServiceName(port) # "" THEN NmapServiceName(port) ELSE "unknown",
    version  |-> "unknown",
    product  |-> "unknown" ]

\* Mutant: a service is recorded for every port read, open or not; only
\* open_ports is filtered.
ScanPortsServiceOfEveryPort(host, outcome) ==
  LET nread == IF ProviderFailed(outcome) THEN outcome.failAfter
               ELSE IF outcome.up THEN MaxPorts ELSE 0
      IsRead(p) == p <= nread
      IsOpenRead(p) == p <= nread /\ outcome.state[p] = "open"
      read == SelectSeq(Ascending(Ports), IsRead)
  IN  [ host       |-> host,
        open_ports |-> SelectSeq(Ascending(Ports), IsOpenRead),
        services   |-> [ i \in 1 .. Len(read) |->
                           [ ServiceInfo(read[i]) EXCEPT !.state = outcome.state[read[i]] ] ] ]

\* The port_info scan_ports returns: the except branch only logs, so the
\* entries appended before the exception stay in the result.
ScanPorts(host, outcome) ==
  LET nread == IF ProviderFailed(outcome) THEN outcome.failAfter
               ELSE IF outcome.up THEN MaxPorts ELSE 0
      IsOpenRead(p) == p <= nread /\ outcome.state[p] = "open"
      open == SelectSeq(Ascending(Ports), IsOpenRead)
  IN  [ host       |-> host,
        open_ports |-> open,
        services   |-> [ i \in 1 .. Len(open) |-> ServiceInfo(open[i]) ] ]

\* ----------------------------------------------------- full_network_scan
\* scan_results as initialised at the start of full_network_scan
\* (scan_id, start_time and networks_scanned are not modelled).
EmptyResults ==
  [ hosts   |-> << >>,
    summary |-> [ total_hosts |-> 0, total_open_ports |-> 0, total_services |-> 0 ] ]

\* port_info before any call of scan_ports.
NoPortInfo == [ host |-> 0, open_ports |-> << >>, services |-> << >> ]

\* host_info['port_scan'] = port_scan
AttachPortScan(host_info, port_scan) == [ port_scan |-> port_scan ] @@ host_info

\* Mutant: total_open_ports is assigned ("=") where the code adds ("+=").
UpdateSummaryAssigned(summary, port_scan) ==
  [ total_hosts      |-> summary.total_hosts + 1,
    total_open_ports |-> Len(port_scan.open_ports),
    total_services   |-> summary.total_services + Len(port_scan.services) ]

\* The three "+=" on scan_results['summary'].
UpdateSummary(summary, port_scan) ==
  [ total_hosts      |-> summary.total_hosts + 1,
    total_open_ports |-> summary.total_open_ports + Len(port_scan.open_ports),
    total_services   |-> summary.total_services + Len(port_scan.services) ]

\* Mutant: a host whose scan brought no open port is left out of the snapshot.
HostLoopBodySkipsEmpty(results, host_info, port_scan) ==
  IF port_scan.open_ports = << >> THEN results
  ELSE [ hosts   |-> Append(results.hosts, AttachPortScan(host_info, port_scan)),
         summary |-> UpdateSummary(results.summary, port_scan) ]

\* One iteration of "for ip, host_info in all_hosts.items()" after scan_ports
\* has returned port_scan.
HostLoopBody(results, host_info, port_scan) ==
  [ hosts   |-> Append(results.hosts, AttachPortScan(host_info, port_scan)),
    summary |-> UpdateSummary(results.summary, port_scan) ]

Scanning == pc \in { "initial_scan", "periodic_scan" }

\* Mutant: the loop sleeps the 60 s of the except branch between scans.
SleepSecondsAlwaysBackoff(position) ==
  CASE position = "sleep"   -> BackoffInterval
    [] position = "backoff" -> BackoffInterval
    [] OTHER                -> 0

\* The argument of the time.sleep call main is in at `position`:
\* time.sleep(scan_interval) at the top of the loop, time.sleep(60) in the
\* except branch, none elsewhere.
SleepSeconds(position) ==
  CASE position = "sleep"   -> ScanInterval
    [] position = "backoff" -> BackoffInterval
    [] OTHER                -> 0

\* The first statements of full_network_scan, up to the loop over networks.
BeginScan ==
  /\ phase' = "arp"
  /\ scan_status' = "running"
  /\ netIdx' = 1
  /\ arp_hosts' = << >>
  /\ icmp_hosts' = << >>
  /\ all_hosts' = << >>
  /\ hostIdx' = 1
  /\ scan_results' = EmptyResults
  /\ port_info' = NoPortInfo
  /\ scan_failed' = FALSE
  /\ port_errors' = FALSE
  /\ arp_failed' = FALSE
  /\ icmp_failed' = FALSE
  /\ discovered' = << >>
  /\ results_file' = "absent"
  /\ timer' = SleepSeconds(pc')
  /\ reach' = reach
  /\ probes' = << >>

\* The frame of full_network_scan is left: its locals are gone.
LeaveScan(status, results) ==
  /\ phase' = "idle"
  /\ scan_status' = status
  /\ netIdx' = 0
  /\ arp_hosts' = << >>
  /\ icmp_hosts' = << >>
  /\ all_hosts' = << >>
  /\ hostIdx' = 0
  /\ scan_results' = results
  /\ port_info' = NoPortInfo
  /\ scan_failed' = FALSE
  /\ arp_failed' = FALSE
  /\ icmp_failed' = FALSE
  /\ timer' = SleepSeconds(pc')
  /\ probes' = << >>
  /\ UNCHANGED << port_errors, discovered, reach >>

\* arp_hosts = self.discover_hosts_arp(network): srp answers, or raises and
\* the except branch returns the (empty) list.
DiscoverArp ==
  /\ UNCHANGED trafficVars
  /\ Scanning
  /\ phase = "arp"
  /\ \/ \E answered \in DiscoveryAnswers(netIdx) :
          /\ arp_hosts' = ArpHosts(answered)
          /\ arp_failed' = FALSE
     \/ /\ arp_hosts' = << >>
        /\ arp_failed' = TRUE
  /\ phase' = "icmp"
  /\ probes' = Append(probes, << netIdx, "ARP" >>)
  /\ UNCHANGED << pc, scan_status, netIdx, icmp_hosts, all_hosts, hostIdx,
                  scan_results, port_info, scan_failed, port_errors,
                  icmp_failed, discovered, results_file, timer, reach >>

\* icmp_hosts = self.discover_hosts_icmp(network)
DiscoverIcmp ==
  /\ UNCHANGED trafficVars
  /\ Scanning
  /\ phase = "icmp"
  /\ \/ \E up \in DiscoveryAnswers(netIdx) :
          /\ icmp_hosts' = IcmpHosts(up)
          /\ icmp_failed' = FALSE
     \/ /\ icmp_hosts' = << >>
        /\ icmp_failed' = TRUE
  /\ phase' = "merge"
  /\ probes' = Append(probes, << netIdx, "ICMP" >>)
  /\ UNCHANGED << pc, scan_status, netIdx, arp_hosts, all_hosts, hostIdx,
                  scan_results, port_info, scan_failed, port_errors,
                  arp_failed, discovered, results_file, timer, reach >>

\* all_hosts = {h['ip']: h for h in arp_hosts + icmp_hosts}
Merge ==
  /\ UNCHANGED trafficVars
  /\ Scanning
  /\ phase = "merge"
  /\ all_hosts' = MergeHosts(arp_hosts, icmp_hosts)
  /\ hostIdx' = 1
  /\ discovered' = discovered \o [ i \in 1 .. Len(all_hosts') |-> all_hosts'[i].ip ]
  /\ phase' = "ports"
  /\ UNCHANGED << pc, scan_status, netIdx, arp_hosts, icmp_hosts, scan_results,
                  port_info, scan_failed, port_errors, arp_failed, icmp_failed,
                  results_file, timer, reach, probes >>

\* One iteration of the loop over all_hosts.items(): scan_ports, attach,
\* append, update the summary. host_info is the dict held by all_hosts, so
\* the attached port_scan shows there too.
ScanHost ==
  /\ UNCHANGED trafficVars
  /\ Scanning
  /\ phase = "ports"
  /\ hostIdx <= Len(all_hosts)
  /\ \E outcome \in ScanOutcomes :
       LET host_info == all_hosts[hostIdx]
           port_scan == ScanPorts(host_info.ip, outcome)
       IN  /\ port_info' = port_scan
           /\ scan_failed' = ProviderFailed(outcome)
           /\ port_errors' = (port_errors \/ ProviderFailed(outcome))
           /\ scan_results' = HostLoopBody(scan_results, host_info, port_scan)
           /\ all_hosts' = [ all_hosts EXCEPT ![hostIdx] = AttachPortScan(host_info, port_scan) ]
  /\ hostIdx' = hostIdx + 1
  /\ UNCHANGED << pc, phase, scan_status, netIdx, arp_hosts, icmp_hosts,
                  arp_failed, icmp_failed, discovered, results_file, timer, reach, probes >>

\* The loop over all_hosts is exhausted: the next network, or past the loop.
NextNetwork ==
  /\ UNCHANGED trafficVars
  /\ Scanning
  /\ phase = "ports"
  /\ hostIdx > Len(all_hosts)
  /\ IF netIdx < NumNetworks
     THEN /\ netIdx' = netIdx + 1
          /\ phase' = "arp"
     ELSE /\ netIdx' = netIdx
          /\ phase' = "save"
  /\ UNCHANGED << pc, scan_status, arp_hosts, icmp_hosts, all_hosts, hostIdx,
                  scan_results, port_info, scan_failed, port_errors,
                  arp_failed, icmp_failed, discovered, results_file, timer, reach, probes >>

\* An exception leaves full_network_scan: the initial call of main is outside
\* any try and ends main; the call in the loop is caught by
\* "except Exception", which logs and sleeps 60 s.
RaiseFromScan ==
  /\ pc' = IF pc = "initial_scan" THEN "crashed" ELSE "backoff"
  /\ LeaveScan("raised", EmptyResults)

\* with open(results_file, 'w') as f: the file is created (or truncated), or
\* open raises.
OpenResultsFile ==
  /\ UNCHANGED trafficVars
  /\ Scanning
  /\ phase = "save"
  /\ \/ /\ results_file' = "partial"
        /\ phase' = "dump"
        /\ UNCHANGED << pc, scan_status, netIdx, arp_hosts, icmp_hosts, all_hosts,
                        hostIdx, scan_results, port_info, scan_failed,
                        port_errors, arp_failed, icmp_failed, discovered,
                        timer, reach, probes >>
     \/ /\ results_file' = results_file
        /\ RaiseFromScan

\* json.dump(scan_results, f) and the return of scan_results to main, which
\* goes (back) to time.sleep(scan_interval); or the dump raises part-way.
DumpAndReturn ==
  /\ UNCHANGED trafficVars
  /\ Scanning
  /\ phase = "dump"
  /\ \/ /\ results_file' = "complete"
        /\ pc' = "sleep"
        /\ LeaveScan("returned", scan_results)
     \/ /\ results_file' = "partial"
        /\ RaiseFromScan

\* ------------------------------------------------------------------ main
\* results = scanner.full_network_scan(): the initial scan, before any sleep.
MainStart ==
  /\ UNCHANGED trafficVars
  /\ pc = "start"
  /\ pc' = "initial_scan"
  /\ BeginScan

\* time.sleep(scan_interval) returns; scanner.full_network_scan() is called.
SleepElapsed ==
  /\ UNCHANGED trafficVars
  /\ pc = "sleep"
  /\ pc' = "periodic_scan"
  /\ BeginScan

\* time.sleep(60) of the except branch returns: back to the top of the loop.
BackoffElapsed ==
  /\ UNCHANGED trafficVars
  /\ pc = "backoff"
  /\ pc' = "sleep"
  /\ timer' = SleepSeconds(pc')
  /\ UNCHANGED << phase, scan_status, netIdx, arp_hosts, icmp_hosts, all_hosts,
                  hostIdx, scan_results, port_info, scan_failed, port_errors,
                  arp_failed, icmp_failed, discovered, results_file, reach, probes >>

\* KeyboardInterrupt is no Exception: no handler of the scanner catches it.
\* Inside the try of the loop (sleep or scan) main logs and breaks; in the
\* initial scan and in the sleep of the except branch it ends main.
KeyboardInterrupt ==
  /\ UNCHANGED trafficVars
  /\ pc \in { "initial_scan", "sleep", "periodic_scan", "backoff" }
  /\ pc' = IF pc \in { "sleep", "periodic_scan" } THEN "stopped" ELSE "interrupted"
  /\ IF Scanning
     THEN LeaveScan("interrupted", EmptyResults)
     ELSE /\ timer' = SleepSeconds(pc')
          /\ UNCHANGED << phase, scan_status, netIdx, arp_hosts, icmp_hosts,
                          all_hosts, hostIdx, scan_results, port_info,
                          scan_failed, port_errors, arp_failed, icmp_failed,
                          discovered, reach, probes >>
  /\ UNCHANGED results_file

\* ---------------------------------------------------------- PCAPAnalyzer
Layers == { "IP", "TCP", "UDP", "ICMP", "DNS", "ARP" }

Addrs == { "A", "B" }

\* A decoded packet: the layers it holds ("X in packet"), its timestamp,
\* len(packet), the addresses of its IP layer, the ports of its TCP layer
\* and the qname of its DNS question ("" when packet[DNS].qd is empty).
Packet(layers, time, length, src, dst, sport, dport, qname) ==
  [ layers |-> layers, time |-> time, len |-> length, src |-> src, dst |-> dst,
    sport |-> sport, dport |-> dport, qname |-> qname ]

\* Packets with every combination of layers, all else fixed.
FlagPackets ==
  { Packet(l, 0, 1, "A", "B", 1, 2, IF "DNS" \in l THEN "a.com" ELSE "") :
      l \in SUBSET Layers }

\* Packets with every pair of addresses and every length, with an IP layer
\* (over TCP) or without one (ARP).
ConvPackets ==
  { Packet({ "IP", "TCP" }, 0, n, a, b, 1, 2, "") :
      n \in 1 .. MaxPktLen, a \in Addrs, b \in Addrs }
  \cup { Packet({ "ARP" }, 0, n, "A", "B", 0, 0, "") : n \in 1 .. MaxPktLen }

\* Packets with every timestamp, all else fixed.
TimePackets ==
  { Packet({ "ARP" }, t, 1, "A", "B", 0, 0, "") : t \in 0 .. MaxTime }

\* The names DNS questions ask for.
QueryNames == { "a.com", "b.com", "c.com" }

\* DNS packets over UDP with every question, or with none.
DnsPackets ==
  { Packet({ "IP", "UDP", "DNS" }, 0, 1, "A", "B", 0, 0, q) :
      q \in QueryNames \cup { "" } }

\* Sequences over S of length at most n.
SeqsUpTo(S, n) == UNION { [ 1 .. k -> S ] : k \in 0 .. n }

\* Mutant: a dict that starts with every protocol at 0.
EmptyDictPrefilled ==
  [ k \in { "IPv4", "TCP", "UDP", "ICMP", "DNS", "ARP" } |-> 0 ]

\* A defaultdict(int) without keys.
EmptyDict == [ k \in {} |-> 0 ]

\* d[k] += 1 on a defaultdict(int): the key is created on first use.
Increment(d, k) ==
  IF k \in DOMAIN d THEN [ d EXCEPT ![k] = @ + 1 ] ELSE (k :> 1) @@ d

\* The value a reader gets for key k (0 when the key was never created).
Tally(d, k) == IF k \in DOMAIN d THEN d[k] ELSE 0

\* Mutant: UDP is tested with "if" where the code has "elif".
ProtocolKeysUdpIf(packet) ==
  (IF "IP" \in packet.layers
   THEN { "IPv4" } \cup
        (IF "TCP" \in packet.layers THEN { "TCP" } ELSE {}) \cup
        (IF "UDP" \in packet.layers THEN { "UDP" }
         ELSE IF "ICMP" \in packet.layers /\ "TCP" \notin packet.layers THEN { "ICMP" }
         ELSE {})
   ELSE {})
  \cup (IF "DNS" \in packet.layers THEN { "DNS" } ELSE {})
  \cup (IF "ARP" \in packet.layers THEN { "ARP" } ELSE {})

\* The protocol keys one packet increments in the loop of _analyze: the
\* TCP / UDP / ICMP chain is nested inside "if IP in packet".
ProtocolKeys(packet) ==
  (IF "IP" \in packet.layers
   THEN { "IPv4" } \cup
        (IF "TCP" \in packet.layers THEN { "TCP" }
         ELSE IF "UDP" \in packet.layers THEN { "UDP" }
         ELSE IF "ICMP" \in packet.layers THEN { "ICMP" }
         ELSE {})
   ELSE {})
  \cup (IF "DNS" \in packet.layers THEN { "DNS" } ELSE {})
  \cup (IF "ARP" \in packet.layers THEN { "ARP" } ELSE {})

\* stats['protocols'] after the increments of one packet.
CountProtocols(d, packet) ==
  LET keys == ProtocolKeys(packet)
      inc(dd, k) == IF k \in keys THEN Increment(dd, k) ELSE dd
  IN  inc(inc(inc(inc(inc(inc(d, "IPv4"), "TCP"), "UDP"), "ICMP"), "DNS"), "ARP")

\* The key of stats['tcp_streams'] for a packet: "src:sport -> dst:dport".
FlowKey(packet) == << packet.src, packet.sport, packet.dst, packet.dport >>

\* stats['tcp_streams'][src_dst].append(packet), for a packet with IP and TCP.
AddToStream(streams, packet, pos) ==
  IF ~ ({ "IP", "TCP" } \subseteq packet.layers) THEN streams
  ELSE IF \E i \in 1 .. Len(streams) : streams[i].key = FlowKey(packet)
       THEN [ i \in 1 .. Len(streams) |->
                IF streams[i].key = FlowKey(packet)
                THEN [ streams[i] EXCEPT !.pkts = Append(@, pos) ]
                ELSE streams[i] ]
       ELSE Append(streams, [ key |-> FlowKey(packet), pkts |-> << pos >> ])

\* stats['dns_queries'].append(qname), for a DNS packet with a question.
AddDnsQuery(queries, packet) ==
  IF "DNS" \in packet.layers /\ packet.qname # ""
  THEN Append(queries, packet.qname) ELSE queries

\* The dict `conversations` of get_conversations after the first n packets:
\* its items in insertion order.
RECURSIVE Accumulate(_, _)
Accumulate(pkts, n) ==
  IF n = 0 THEN << >>
  ELSE LET acc == Accumulate(pkts, n - 1)
           p   == pkts[n]
           key == << p.src, p.dst >>
       IN  IF "IP" \notin p.layers THEN acc
           ELSE IF \E i \in 1 .. Len(acc) : acc[i].key = key
                THEN [ i \in 1 .. Len(acc) |->
                         IF acc[i].key = key
                         THEN [ acc[i] EXCEPT !.packets = @ + 1, !.bytes = @ + p.len ]
                         ELSE acc[i] ]
                ELSE Append(acc, [ key |-> key, packets |-> 1, bytes |-> p.len ])

\* Mutant: an ascending sort that is then reversed (sorted(...)[::-1]), which
\* turns the order of items of equal bytes around.
RECURSIVE SortAscendingReversed(_)
SortAscendingReversed(items) ==
  IF items = << >> THEN << >>
  ELSE LET n      == Len(items)
           sorted == SortAscendingReversed(SubSeq(items, 1, n - 1))
           x      == items[n]
           k      == Cardinality({ i \in 1 .. Len(sorted) : sorted[i].bytes > x.bytes })
       IN  SubSeq(sorted, 1, k) \o << x >> \o SubSeq(sorted, k + 1, Len(sorted))

\* sorted(items, key=bytes, reverse=True): descending, and stable (items of
\* equal bytes keep their order).
RECURSIVE SortByBytesDesc(_)
SortByBytesDesc(items) ==
  IF items = << >> THEN << >>
  ELSE LET n      == Len(items)
           sorted == SortByBytesDesc(SubSeq(items, 1, n - 1))
           x      == items[n]
           k      == Cardinality({ i \in 1 .. Len(sorted) : sorted[i].bytes >= x.bytes })
       IN  SubSeq(sorted, 1, k) \o << x >> \o SubSeq(sorted, k + 1, Len(sorted))

\* s[:limit]
SliceTo(s, limit) ==
  IF limit >= 0
  THEN SubSeq(s, 1, IF limit < Len(s) THEN limit ELSE Len(s))
  ELSE SubSeq(s, 1, IF Len(s) + limit > 0 THEN Len(s) + limit ELSE 0)

\* get_conversations(limit)
TopConversations(pkts, limit) ==
  SliceTo(SortByBytesDesc(Accumulate(pkts, Len(pkts))), limit)

\* Mutant: the span of the timestamps, max minus min.
GetDurationMaxMinusMin(pkts) ==
  IF Len(pkts) = 0 THEN 0
  ELSE LET times == { pkts[i].time : i \in 1 .. Len(pkts) }
       IN  (CHOOSE t \in times : \A u \in times : u <= t)
           - (CHOOSE t \in times : \A u \in times : t <= u)

\* _get_duration(): 0 without packets, else the timestamp of the last
\* packet minus the timestamp of the first.
GetDuration(pkts) ==
  IF Len(pkts) = 0 THEN 0 ELSE pkts[Len(pkts)].time - pkts[1].time

\* max(a, b)
Max(a, b) == IF a >= b THEN a ELSE b

\* round(n / d) for integers n >= 0 and d > 0: the nearest integer, a tie
\* going to the even one.
RoundHalfEven(n, d) ==
  LET q == n \div d
      r == n % d
  IN  IF 2 * r < d THEN q
      ELSE IF 2 * r > d THEN q + 1
      ELSE IF q % 2 = 0 THEN q ELSE q + 1

\* Mutant: the quotient is truncated (int(...)) where the code rounds.
PacketsPerSecondTruncated(total_packets, duration_seconds) ==
  total_packets \div Max(duration_seconds, 1)

\* round(total_packets / max(duration_seconds, 1))
PacketsPerSecond(total_packets, duration_seconds) ==
  RoundHalfEven(total_packets, Max(duration_seconds, 1))

\* The dict get_summary returns (the formatted strings are not modelled).
Summary(pkts, stats_duration, stats_protocols, stats_dns, stats_streams) ==
  [ total_packets      |-> Len(pkts),
    packets_per_second |-> PacketsPerSecond(Len(pkts), stats_duration),
    protocols          |-> stats_protocols,
    unique_dns_queries |-> Cardinality(Range(stats_dns)),
    tcp_flows          |-> Len(stats_streams) ]

\* pcap_summary before any call of get_summary.
NoSummary ==
  [ total_packets |-> -1, packets_per_second |-> -1, protocols |-> EmptyDict,
    unique_dns_queries |-> -1, tcp_flows |-> -1 ]

\* sum(d.values())
RECURSIVE SumValues(_)
SumValues(d) ==
  IF DOMAIN d = {} THEN 0
  ELSE LET k == CHOOSE x \in DOMAIN d : TRUE
       IN  d[k] + SumValues([ x \in DOMAIN d \ {k} |-> d[x] ])

\* Whether get_protocol_breakdown divides by zero: the comprehension
\* evaluates count / total once per key of the dict.
BreakdownRaises(d) == DOMAIN d # {} /\ SumValues(d) = 0

\* The dict get_protocol_breakdown returns, in hundredths of a percent:
\* round((count / total) * 100, 2) for every key.
ProtocolBreakdown(d) ==
  [ k \in DOMAIN d |-> RoundHalfEven(d[k] * 10000, SumValues(d)) ]

\* What list(set(queries)) may be: the distinct names in the iteration order
\* of the set, which is the order of the hashes of the strings and differs
\* from run to run.
SetOrders(queries) ==
  { s \in Orderings(Range(queries)) : Len(s) = Cardinality(Range(queries)) }

\* What the last call of a public method left behind.
callVars == << conversations, conv_limit, last_call, call_raised,
               pcap_summary, breakdown, dns_export >>

\* self.packets and self.stats, which no public method changes.
statsVars == << apc, packets, pktIdx, protocols, tcp_streams, dns_queries,
                duration >>

\* One iteration of the loop of _analyze.
AnalyzePacket ==
  /\ UNCHANGED scanVars
  /\ apc = "analyze"
  /\ pktIdx <= Len(packets)
  /\ protocols' = CountProtocols(protocols, packets[pktIdx])
  /\ tcp_streams' = AddToStream(tcp_streams, packets[pktIdx], pktIdx)
  /\ dns_queries' = AddDnsQuery(dns_queries, packets[pktIdx])
  /\ pktIdx' = pktIdx + 1
  /\ UNCHANGED << apc, packets, duration, callVars >>

\* The loop is exhausted: _analyze returns and __init__ stores the stats.
FinishAnalyze ==
  /\ UNCHANGED scanVars
  /\ apc = "analyze"
  /\ pktIdx > Len(packets)
  /\ apc' = "ready"
  /\ UNCHANGED << packets, pktIdx, protocols, tcp_streams, dns_queries,
                  duration, callVars >>

\* A caller asks for get_conversations(limit).
GetConversations ==
  /\ UNCHANGED scanVars
  /\ apc = "ready"
  /\ \E limit \in 0 .. MaxLimit :
       /\ conversations' = TopConversations(packets, limit)
       /\ conv_limit' = limit
  /\ last_call' = "get_conversations"
  /\ call_raised' = FALSE
  /\ pcap_summary' = NoSummary
  /\ breakdown' = EmptyDict
  /\ dns_export' = << >>
  /\ UNCHANGED statsVars

\* A caller asks for get_summary().
GetSummary ==
  /\ UNCHANGED scanVars
  /\ apc = "ready"
  /\ pcap_summary' = Summary(packets, duration, protocols, dns_queries, tcp_streams)
  /\ last_call' = "get_summary"
  /\ call_raised' = FALSE
  /\ conversations' = << >>
  /\ conv_limit' = -1
  /\ breakdown' = EmptyDict
  /\ dns_export' = << >>
  /\ UNCHANGED statsVars

\* A caller asks for get_protocol_breakdown(): the dict, or ZeroDivisionError.
GetProtocolBreakdown ==
  /\ UNCHANGED scanVars
  /\ apc = "ready"
  /\ last_call' = "get_protocol_breakdown"
  /\ IF BreakdownRaises(protocols)
     THEN /\ call_raised' = TRUE
          /\ breakdown' = EmptyDict
     ELSE /\ call_raised' = FALSE
          /\ breakdown' = ProtocolBreakdown(protocols)
  /\ pcap_summary' = NoSummary
  /\ conversations' = << >>
  /\ conv_limit' = -1
  /\ dns_export' = << >>
  /\ UNCHANGED statsVars

\* A caller asks for export_json(): get_summary, get_protocol_breakdown,
\* get_conversations() with its default limit and the sliced list of the set
\* of DNS names; an exception of a part leaves export_json.
ExportJson ==
  /\ UNCHANGED scanVars
  /\ apc = "ready"
  /\ last_call' = "export_json"
  /\ IF BreakdownRaises(protocols)
     THEN /\ call_raised' = TRUE
          /\ pcap_summary' = NoSummary
          /\ breakdown' = EmptyDict
          /\ conversations' = << >>
          /\ conv_limit' = -1
          /\ dns_export' = << >>
     ELSE /\ call_raised' = FALSE
          /\ pcap_summary' = Summary(packets, duration, protocols, dns_queries,
                                tcp_streams)
          /\ breakdown' = ProtocolBreakdown(protocols)
          /\ conversations' = TopConversations(packets, DefaultLimit)
          /\ conv_limit' = DefaultLimit
          /\ \E order \in SetOrders(dns_queries) :
               dns_export' = SliceTo(order, DnsExportLimit)
  /\ UNCHANGED statsVars

\* No public method of the analyzer has been called.
NoCall ==
  /\ conversations = << >>
  /\ conv_limit = -1
  /\ last_call = "none"
  /\ call_raised = FALSE
  /\ pcap_summary = NoSummary
  /\ breakdown = EmptyDict
  /\ dns_export = << >>

\* No PCAPAnalyzer has been constructed.
NoAnalyzer ==
  /\ apc = "none"
  /\ packets = << >>
  /\ pktIdx = 0
  /\ protocols = EmptyDict
  /\ tcp_streams = << >>
  /\ dns_queries = << >>
  /\ duration = 0
  /\ NoCall

\* main() has not started.
ScannerIdle ==
  /\ pc = "start"
  /\ phase = "idle"
  /\ scan_status = "none"
  /\ netIdx = 0
  /\ arp_hosts = << >>
  /\ icmp_hosts = << >>
  /\ all_hosts = << >>
  /\ hostIdx = 0
  /\ scan_results = EmptyResults
  /\ port_info = NoPortInfo
  /\ scan_failed = FALSE
  /\ port_errors = FALSE
  /\ arp_failed = FALSE
  /\ icmp_failed = FALSE
  /\ discovered = << >>
  /\ results_file = "absent"
  /\ timer = 0
  /\ probes = << >>

Init == ScannerIdle /\ reach = "disjoint" /\ NoAnalyzer

Next ==
  \/ MainStart
  \/ DiscoverArp
  \/ DiscoverIcmp
  \/ Merge
  \/ ScanHost
  \/ NextNetwork
  \/ OpenResultsFile
  \/ DumpAndReturn
  \/ SleepElapsed
  \/ BackoffElapsed
  \/ KeyboardInterrupt

Spec == Init /\ [][Next]_vars

\* The steps the program takes by itself: every step but the interrupt.
ProgramStep ==
  \/ MainStart
  \/ DiscoverArp
  \/ DiscoverIcmp
  \/ Merge
  \/ ScanHost
  \/ NextNetwork
  \/ OpenResultsFile
  \/ DumpAndReturn
  \/ SleepElapsed
  \/ BackoffElapsed

\* main() on a network where one address answers. Every call the program
\* makes returns or raises in the end (the probes have timeouts, a sleep
\* elapses), so a step of the program that is possible is taken; an
\* interrupt may never come.
InitSparse == ScannerIdle /\ reach = "sparse" /\ NoAnalyzer

SpecCadence == InitSparse /\ [][Next]_vars /\ WF_vars(ProgramStep)

\* main() on a network where an address of the first network also answers
\* the probes of the second network.
InitOverlap == ScannerIdle /\ reach = "overlap" /\ NoAnalyzer

SpecOverlap == InitOverlap /\ [][Next]_vars

\* PCAPAnalyzer(pcap_file) after rdpcap: the packets are read, _analyze has
\* built its stats dict and is about to loop over the packets.
AnalyzerConstructed(pkts) ==
  /\ apc = "analyze"
  /\ packets = pkts
  /\ pktIdx = 1
  /\ protocols = EmptyDict
  /\ tcp_streams = << >>
  /\ dns_queries = << >>
  /\ duration = GetDuration(pkts)
  /\ NoCall

InitTraffic ==
  /\ ScannerIdle
  /\ reach = "disjoint"
  /\ \E pkts \in SeqsUpTo(FlagPackets, MaxFlagPackets)
                   \cup SeqsUpTo(ConvPackets, MaxConvPackets) :
       AnalyzerConstructed(pkts)

NextTraffic ==
  \/ AnalyzePacket
  \/ FinishAnalyze
  \/ GetConversations

SpecTraffic == InitTraffic /\ [][NextTraffic]_vars

\* A PCAPAnalyzer over a capture drawn with arbitrary layers, timestamps or
\* DNS questions, asked for its summary, its breakdown or its export.
InitExport ==
  /\ ScannerIdle
  /\ reach = "disjoint"
  /\ \E pkts \in SeqsUpTo(FlagPackets, MaxFlagPackets)
                   \cup SeqsUpTo(TimePackets, MaxTimePackets)
                   \cup SeqsUpTo(DnsPackets, MaxDnsPackets) :
       AnalyzerConstructed(pkts)

NextExport ==
  \/ AnalyzePacket
  \/ FinishAnalyze
  \/ GetSummary
  \/ GetProtocolBreakdown
  \/ ExportJson

SpecExport == InitExport /\ [][NextExport]_vars

\* ================================================================ claims
RECURSIVE SumOver(_, _)
\* The sum of f[i] over the positions i of the set S.
SumOver(f, S) ==
  IF S = {} THEN 0
  ELSE LET i == CHOOSE x \in S : TRUE IN f[i] + SumOver(f, S \ {i})

OpenPortCounts(results) ==
  [ i \in 1 .. Len(results.hosts) |-> Len(results.hosts[i].port_scan.open_ports) ]

ServiceCounts(results) ==
  [ i \in 1 .. Len(results.hosts) |-> Len(results.hosts[i].port_scan.services) ]

HostIps(results) == [ i \in 1 .. Len(results.hosts) |-> results.hosts[i].ip ]

\* C1: in every snapshot that full_network_scan returns, total_hosts is the
\* number of host entries, total_open_ports the sum of the lengths of their
\* open_ports and total_services the sum of the lengths of their services.
C1_SummaryMatchesHosts ==
  scan_status = "returned" =>
    /\ scan_results.summary.total_hosts = Len(scan_results.hosts)
    /\ scan_results.summary.total_open_ports =
         SumOver(OpenPortCounts(scan_results), 1 .. Len(scan_results.hosts))
    /\ scan_results.summary.total_services =
         SumOver(ServiceCounts(scan_results), 1 .. Len(scan_results.hosts))

\* A snapshot of three hosts over two networks was returned after a port
\* scan failed, with open ports counted for more than one host.
C1_Witness ==
  /\ scan_status = "returned"
  /\ Len(scan_results.hosts) = 3
  /\ port_errors
  /\ scan_results.summary.total_open_ports = 2
  /\ scan_results.summary.total_services = 2

\* C2: a failing port scan is isolated to its host: every host the loop has
\* passed is in the snapshot with a port_scan of its own attached, and a
\* returned snapshot holds one entry for every host discovered in any
\* network, in discovery order.
C2_PortScanFailureIsolated ==
  /\ \A i \in 1 .. Len(scan_results.hosts) :
       /\ "port_scan" \in DOMAIN scan_results.hosts[i]
       /\ scan_results.hosts[i].port_scan.host = scan_results.hosts[i].ip
  /\ phase = "ports" =>
       /\ Len(scan_results.hosts) + (Len(all_hosts) - (hostIdx - 1)) = Len(discovered)
       /\ HostIps(scan_results) = SubSeq(discovered, 1, Len(scan_results.hosts))
  /\ phase \in { "save", "dump" } =>
       /\ netIdx = NumNetworks
       /\ HostIps(scan_results) = discovered
  /\ scan_status = "returned" =>
       /\ HostIps(scan_results) = discovered
       /\ scan_results.summary.total_hosts = Len(discovered)

\* Three hosts were discovered, a port scan failed, and the snapshot was
\* returned with three entries: two with services, one without.
C2_Witness ==
  /\ scan_status = "returned"
  /\ port_errors
  /\ Len(discovered) = 3
  /\ Len(scan_results.hosts) = 3
  /\ scan_results.summary.total_hosts = 3
  /\ Cardinality({ i \in 1 .. 3 : scan_results.hosts[i].port_scan.services # << >> }) = 2

\* C3: when the provider fails inside scan_ports, the returned port_info has
\* empty open_ports and services and carries an error field.
C3_FailedScanEmptyWithError ==
  scan_failed =>
    /\ port_info.open_ports = << >>
    /\ port_info.services = << >>
    /\ "error" \in DOMAIN port_info

\* C4: after the merge, the record of an ip holds the mac of every ARP
\* observation of that ip and the hostname of every ICMP observation of it.
C4_MergeKeepsFields ==
  phase = "ports" =>
    \A i \in 1 .. Len(all_hosts) :
      /\ \A a \in Range(arp_hosts) :
           a.ip = all_hosts[i].ip =>
             "mac" \in DOMAIN all_hosts[i] /\ all_hosts[i].mac = a.mac
      /\ \A c \in Range(icmp_hosts) :
           c.ip = all_hosts[i].ip =>
             "hostname" \in DOMAIN all_hosts[i] /\ all_hosts[i].hostname = c.hostname

\* The provider tags whose discovery result of the current network holds ip.
SeenBy(ip) ==
  (IF \E a \in Range(arp_hosts) : a.ip = ip THEN { "ARP" } ELSE {})
  \cup (IF \E c \in Range(icmp_hosts) : c.ip = ip THEN { "ICMP" } ELSE {})

\* The discovery methods a host record carries: its single 'method' entry.
RecordedMethods(host) == { host.method }

\* C5: every host of the snapshot records exactly the provider tags whose
\* discovery result held its ip (stated while the results of the host's
\* network are at hand).
C5_MethodsAreProviders ==
  phase = "ports" =>
    \A i \in 1 .. Len(scan_results.hosts) :
      NetOf(scan_results.hosts[i].ip) = netIdx =>
        RecordedMethods(scan_results.hosts[i]) = SeenBy(scan_results.hosts[i].ip)

\* C6: an error raised by full_network_scan, in any iteration including the
\* first, never ends main.
C6_ScanErrorNeverEndsMain == pc # "crashed"

\* C7: main never reaches STOPPED with a scan cut short by the cancellation.
C7_StoppedOnlyAfterScanCompletes == pc = "stopped" => scan_status # "interrupted"

\* C8: no call of full_network_scan ends by raising.
C8_ScanNeverRaises == scan_status # "raised"

\* ------------------------------------------------- protocol classification
\* The packets the loop of _analyze has passed.
Analyzed == 1 .. (pktIdx - 1)

HasLayer(i, layer) == layer \in packets[i].layers

\* The first of TCP, UDP, ICMP that packet i holds, if any.
FirstL4(i) ==
  IF HasLayer(i, "TCP") THEN { "TCP" }
  ELSE IF HasLayer(i, "UDP") THEN { "UDP" }
  ELSE IF HasLayer(i, "ICMP") THEN { "ICMP" }
  ELSE {}

\* C9 as amended: over the packets analysed so far, IPv4 counts the packets
\* with an IP layer; TCP, UDP and ICMP each count the packets WITH AN IP LAYER
\* whose first layer among TCP, UDP, ICMP it is (a packet without an IP layer
\* increments none of the three); DNS and ARP count the packets with that
\* layer, whatever the rest; so TCP + UDP + ICMP is at most the IPv4 count
\* and at most the number of packets.
C9_ClassificationWithinIPv4 ==
  apc \in { "analyze", "ready" } =>
    /\ Tally(protocols, "IPv4") = Cardinality({ i \in Analyzed : HasLayer(i, "IP") })
    /\ \A l4 \in { "TCP", "UDP", "ICMP" } :
         Tally(protocols, l4) =
           Cardinality({ i \in Analyzed : HasLayer(i, "IP") /\ l4 \in FirstL4(i) })
    /\ Tally(protocols, "DNS") = Cardinality({ i \in Analyzed : HasLayer(i, "DNS") })
    /\ Tally(protocols, "ARP") = Cardinality({ i \in Analyzed : HasLayer(i, "ARP") })
    /\ Tally(protocols, "TCP") + Tally(protocols, "UDP") + Tally(protocols, "ICMP")
         <= Tally(protocols, "IPv4")
    /\ Tally(protocols, "TCP") + Tally(protocols, "UDP") + Tally(protocols, "ICMP")
         <= Cardinality(Analyzed)

\* C9 as stated: TCP, UDP and ICMP each count the packets whose first layer
\* among the three it is, with or without an IP layer.
C9_ClassificationAsStated ==
  apc \in { "analyze", "ready" } =>
    /\ Tally(protocols, "IPv4") = Cardinality({ i \in Analyzed : HasLayer(i, "IP") })
    /\ \A l4 \in { "TCP", "UDP", "ICMP" } :
         Tally(protocols, l4) = Cardinality({ i \in Analyzed : l4 \in FirstL4(i) })
    /\ Tally(protocols, "DNS") = Cardinality({ i \in Analyzed : HasLayer(i, "DNS") })
    /\ Tally(protocols, "ARP") = Cardinality({ i \in Analyzed : HasLayer(i, "ARP") })

\* The analysis is over for two packets: one holds IP, TCP, UDP and DNS (and
\* counts as IPv4, TCP and DNS), the other holds TCP without IP (and counts
\* as nothing).
C9_Witness ==
  /\ apc = "ready"
  /\ Len(packets) = 2
  /\ packets[1].layers = { "IP", "TCP", "UDP", "DNS" }
  /\ packets[2].layers = { "TCP" }
  /\ Tally(protocols, "TCP") = 1
  /\ Tally(protocols, "UDP") = 0
  /\ Tally(protocols, "DNS") = 1

\* ------------------------------------------------------------ conversations
IpPackets == { i \in 1 .. Len(packets) : "IP" \in packets[i].layers }

PairOf(i) == << packets[i].src, packets[i].dst >>

\* The distinct directional (src, dst) pairs of the packets with an IP layer.
Pairs == { PairOf(i) : i \in IpPackets }

PairPackets(pair) == Cardinality({ i \in IpPackets : PairOf(i) = pair })

PairBytes(pair) ==
  SumOver([ i \in 1 .. Len(packets) |-> packets[i].len ],
          { i \in IpPackets : PairOf(i) = pair })

\* The position of the first packet of the pair.
FirstSeen(pair) ==
  CHOOSE i \in IpPackets :
    PairOf(i) = pair /\ \A j \in IpPackets : PairOf(j) = pair => i <= j

ReturnedPairs == { conversations[i].key : i \in 1 .. Len(conversations) }

\* C10: get_conversations(limit = K) returns min(K, number of distinct
\* directional pairs) entries; each is a pair of the capture with the packet
\* and byte totals of the IP packets of that direction only; entries are in
\* descending order of bytes, entries of equal bytes in first-seen order; and
\* no entry left out has more bytes than an entry returned.
C10_TopConversations ==
  conv_limit >= 0 =>
    /\ Len(conversations) =
         (IF conv_limit < Cardinality(Pairs) THEN conv_limit ELSE Cardinality(Pairs))
    /\ \A i \in 1 .. Len(conversations) :
         /\ conversations[i].key \in Pairs
         /\ conversations[i].packets = PairPackets(conversations[i].key)
         /\ conversations[i].bytes = PairBytes(conversations[i].key)
    /\ \A i, j \in 1 .. Len(conversations) :
         i < j =>
           /\ conversations[i].key # conversations[j].key
           /\ \/ conversations[i].bytes > conversations[j].bytes
              \/ /\ conversations[i].bytes = conversations[j].bytes
                 /\ FirstSeen(conversations[i].key) < FirstSeen(conversations[j].key)
    /\ \A pair \in Pairs \ ReturnedPairs :
         \A i \in 1 .. Len(conversations) : conversations[i].bytes >= PairBytes(pair)

\* Three packets B->A (1 byte), A->B (2 bytes), B->A (1 byte) and a call
\* get_conversations(2): B->A (first seen, 2 packets, 2 bytes) comes before
\* A->B (1 packet, 2 bytes), the two directions being separate entries.
C10_Witness ==
  /\ apc = "ready"
  /\ conv_limit = 2
  /\ Len(packets) = 3
  /\ Len(conversations) = 2
  /\ conversations[1] = [ key |-> << "B", "A" >>, packets |-> 2, bytes |-> 2 ]
  /\ conversations[2] = [ key |-> << "A", "B" >>, packets |-> 1, bytes |-> 2 ]

\* The positions of the packets that carry a DNS question.
DnsQuestions ==
  { i \in 1 .. Len(packets) : "DNS" \in packets[i].layers /\ packets[i].qname # "" }

\* The distinct names asked for, in the order of their first appearance.
FirstAppearances ==
  LET firsts == Ascending({ i \in DnsQuestions :
                              \A j \in DnsQuestions : j < i => packets[j].qname # packets[i].qname })
  IN  [ k \in 1 .. Len(firsts) |-> packets[firsts[k]].qname ]

Exported == last_call = "export_json" /\ ~ call_raised

\* C11: in an export, unique_dns_queries is the number of distinct names
\* among the packets with a DNS question, and the exported dns_queries list
\* has no duplicates, has min(20, unique count) entries and is the first 20
\* distinct names in the order of their first appearance.
C11_DnsExportFirstAppearance ==
  Exported =>
    /\ pcap_summary.unique_dns_queries = Len(FirstAppearances)
    /\ \A i, j \in 1 .. Len(dns_export) : i # j => dns_export[i] # dns_export[j]
    /\ Len(dns_export) = (IF Len(FirstAppearances) < 20 THEN Len(FirstAppearances) ELSE 20)
    /\ dns_export = SubSeq(FirstAppearances, 1, Len(dns_export))

\* Whether an analyzer exists (its stats dict was built by _analyze).
Constructed == apc \in { "analyze", "ready" }

\* C12: the duration is the timestamp of the packet in last position minus
\* the timestamp of the packet in first position: 0 for no packet and for
\* one packet, 5 for packets at t=0 then t=5, negative when the packet in
\* last position is earlier than the one in first position.
C12_DurationLastMinusFirst ==
  Constructed =>
    /\ Len(packets) <= 1 => duration = 0
    /\ Len(packets) >= 1 => packets[1].time + duration = packets[Len(packets)].time
    /\ (Len(packets) = 2 /\ packets[1].time = 0 /\ packets[2].time = 5) => duration = 5
    /\ (Len(packets) >= 1 /\ packets[Len(packets)].time < packets[1].time) => duration < 0

\* C12 witness: an analyzed capture with packets at t=2, t=5, t=0 (span 5)
\* has duration -2.
C12_Witness ==
  /\ apc = "ready"
  /\ Len(packets) = 3
  /\ << packets[1].time, packets[2].time, packets[3].time >> = << 2, 5, 0 >>
  /\ duration = -2

\* get_summary returned (to a caller or to export_json).
Summarized == last_call \in { "get_summary", "export_json" } /\ ~ call_raised

\* C13: packets_per_second is total_packets / max(duration, 1) rounded to a
\* nearest integer (it is within one half of the quotient), and whenever the
\* duration is at most 1 (zero and negative included) it is total_packets.
C13_RateRounded ==
  Summarized =>
    LET n == Len(packets)
        d == IF duration >= 1 THEN duration ELSE 1
        r == pcap_summary.packets_per_second
    IN  /\ pcap_summary.total_packets = n
        /\ 2 * (r * d - n) <= d
        /\ 2 * (n - r * d) <= d
        /\ duration <= 1 => r = n

\* C13 witness: a summary of three packets whose duration is negative
\* reports three packets per second.
C13_Witness ==
  /\ last_call = "get_summary"
  /\ Len(packets) = 3
  /\ duration < 0
  /\ pcap_summary.packets_per_second = 3

\* all_hosts holds the merge of the hosts of the current network.
Merged == Scanning /\ phase = "ports"

\* C14: the merge step applied to its own output gives that output back:
\* the same records, with the same fields, in the same order.
C14_MergeIdempotent ==
  (Merged /\ hostIdx = 1) =>
    /\ all_hosts = MergeHosts(arp_hosts, icmp_hosts)
    /\ MergeHosts(all_hosts, << >>) = all_hosts
    /\ MergeHosts(<< >>, all_hosts) = all_hosts
    /\ MergeHosts(all_hosts, all_hosts) = all_hosts

\* C14 witness: a merge of two hosts that both providers reported, in
\* different orders.
C14_Witness ==
  /\ Merged
  /\ hostIdx = 1
  /\ Len(all_hosts) = 2
  /\ Len(arp_hosts) = 2
  /\ Len(icmp_hosts) = 2
  /\ arp_hosts[1].ip = icmp_hosts[2].ip

\* C15: no two entries of hosts in the results of a scan have the same ip,
\* whatever the providers report for the networks: an ip reported by both
\* providers for one network, or an ip reported for two networks.
C15_UniqueIps ==
  \A i, j \in 1 .. Len(scan_results.hosts) :
    i # j => scan_results.hosts[i].ip # scan_results.hosts[j].ip

\* The discovery calls of a whole scan: both providers for every configured
\* network, in the configured order.
AllProbes ==
  [ k \in 1 .. 2 * NumNetworks |->
      << (k + 1) \div 2, IF k % 2 = 1 THEN "ARP" ELSE "ICMP" >> ]

C17_NoPartialFile == results_file # "partial"

\* full_network_scan has just been entered.
ScanStarts == Scanning /\ phase = "arp" /\ netIdx = 1 /\ probes = << >>

\* main is in no error path and has not been cancelled.
NoFault == pc \notin { "backoff", "crashed", "interrupted", "stopped" }

\* What holds in every state of main: it sleeps 300 s at the top of the
\* loop and 60 s, which is less, after a failed iteration; it is in no sleep
\* before or during a scan; and there is one scan at most, the one main
\* is in.
C18_Position ==
  /\ pc = "sleep" => timer = 300
  /\ pc = "backoff" => timer = 60 /\ timer < ScanInterval
  /\ pc \in { "start", "initial_scan", "periodic_scan" } => timer = 0
  /\ Scanning <=> scan_status = "running"
  /\ Scanning <=> phase # "idle"

\* What holds of every step of main: its first step starts a scan; a scan
\* that returns is followed by the sleep of the loop; and that sleep is
\* followed by the start of the next scan (or by the interrupt).
C18_Step ==
  /\ pc = "start" => pc' = "initial_scan" /\ ScanStarts'
  /\ (Scanning /\ scan_status' = "returned") => pc' = "sleep" /\ timer' = ScanInterval
  /\ (pc = "sleep" /\ pc' # "stopped") => pc' = "periodic_scan" /\ ScanStarts'
  /\ ScanStarts' => pc \in { "start", "sleep" }

\* C18: the first scan starts before any sleep; a scan that ends is
\* separated from the start of the next by exactly one sleep of 300 s; at
\* most one scan runs at a time; the sleep after a failed iteration, 60 s,
\* is shorter than 300 s; and as long as there is neither an error nor a
\* cancellation, scans are started again and again.
C18_Cadence ==
  /\ []C18_Position
  /\ [][C18_Step]_vars
  /\ ([]NoFault => []<>ScanStarts)

\* C18 witness: a scan that found a host has returned and main is in the
\* sleep of 300 s that precedes the next scan.
C18_Witness ==
  /\ pc = "sleep"
  /\ scan_status = "returned"
  /\ Len(scan_results.hosts) = 1
  /\ results_file = "complete"
  /\ timer = ScanInterval

\* No packet of the capture is tallied: none has an IP, DNS or ARP layer.
NothingTallied ==
  \A i \in 1 .. Len(packets) : packets[i].layers \cap { "IP", "DNS", "ARP" } = {}

\* get_protocol_breakdown was called (by a caller or by export_json).
BrokenDown == last_call \in { "get_protocol_breakdown", "export_json" }

\* C19: get_protocol_breakdown and export_json return for every packet
\* sequence, and when nothing is tallied (no packet, or no packet with an
\* IP, DNS or ARP layer) the breakdown they return is empty.
C19_BreakdownNeverRaises ==
  /\ ~ call_raised
  /\ (BrokenDown /\ NothingTallied) => DOMAIN breakdown = {}
  /\ (BrokenDown /\ ~ NothingTallied) => DOMAIN breakdown # {}

\* C19 witness: export_json returned an empty breakdown for two packets
\* that hold layers but none of IP, DNS and ARP.
C19_Witness ==
  /\ last_call = "export_json"
  /\ ~ call_raised
  /\ Len(packets) = 2
  /\ packets[1].layers = { "TCP" }
  /\ NothingTallied
  /\ DOMAIN breakdown = {}

\* open_ports and services of a port-scan result go together: as many
\* services as open ports, the i-th service is that of the i-th open port,
\* and its state is open.
WellPaired(p) ==
  /\ Len(p.open_ports) = Len(p.services)
  /\ \A i \in 1 .. Len(p.services) :
       /\ p.services[i].port = p.open_ports[i]
       /\ p.services[i].state = "open"

\* C20: every port-scan result, of a provider that succeeded or that failed
\* part-way, is well paired, and so the summary of the results counts as
\* many services as open ports.
C20_PortsAndServicesPaired ==
  /\ WellPaired(port_info)
  /\ \A i \in 1 .. Len(scan_results.hosts) : WellPaired(scan_results.hosts[i].port_scan)
  /\ scan_results.summary.total_open_ports = scan_results.summary.total_services

\* C20 witness: the results of a returned scan hold a host whose port scan
\* found an open port, and a port scan failed during the scan.
C20_Witness ==
  /\ scan_status = "returned"
  /\ port_errors
  /\ scan_results.summary.total_services >= 1
  /\ \E i \in 1 .. Len(scan_results.hosts) :
       Len(scan_results.hosts[i].port_scan.open_ports) >= 1
====
